---- MODULE Spec2Model ----
(***************************************************************************)
(* Model of minitorch/datasets.py: the point sampler make_pts, the Graph   *)
(* dataclass, the five geometric generators, the spiral generator and the  *)
(* registry `datasets`.                                                    *)
(*                                                                         *)
(* Coordinates drawn from the random source are fixed-point numbers in     *)
(* units of 1/20 (0 = 0.0, 4 = 0.2, 10 = 0.5, 16 = 0.8, 18 = 0.9).  For    *)
(* these values the float arithmetic of the label expressions is exact, so *)
(* the integer comparisons below agree with the Python comparisons.        *)
(* Python lists and Graph objects live on two heaps (`lists`, `graphs`)    *)
(* and are referred to by their index, so that aliasing is expressible.    *)
(***************************************************************************)
EXTENDS Integers, Sequences, FiniteSets, TLC

VARIABLES datasets, lists, graphs, rng, ndraws, calls

vars == <<datasets, lists, graphs, rng, ndraws, calls>>

\* ------------------------------------------------------------------ bounds
MaxN == 2
MaxCalls == 2

\* Sample counts a caller passes: negative, zero, odd and even.
Ns == (-1)..MaxN
\* spiral is also called with more negative N and with the N of its
\* documented example, spiral(10).
SpiralNs == ((-MaxN - 1)..MaxN) \cup {10}

\* --------------------------------------------------------------- constants
\* Literals of the source, coordinates in units of 1/20, squares in 1/400.
Half == 10
SplitLo == 4
SplitHi == 16
CircleR2 == 40
ArmStart == 5
TenTimes == 10

\* ----------------------------------------------------------- random source
\* random.random(): a deterministic generator with a fixed cyclic output
\* sequence; its state is the position in the sequence (the seed picks the
\* start).  The sequence holds every ordered pair of the values 0.0, 0.2,
\* 0.5, 0.8, 0.9 exactly once in adjacent positions.
RandomTable ==
  << 0, 0, 4, 0, 10, 0, 16, 0, 18, 4, 4, 10, 4, 16, 4, 18,
     10, 10, 16, 10, 18, 16, 16, 18, 18 >>

Period == Len(RandomTable)

\* The state of the interpreter a function reads and writes: both heaps and
\* the random source with its count of draws.
World == [lists |-> lists, graphs |-> graphs, rng |-> rng, ndraws |-> ndraws]

\* x = random.random(): the value drawn and the world with the source advanced.
random(w) ==
  [val |-> RandomTable[w.rng],
   w   |-> [w EXCEPT !.rng = (w.rng % Period) + 1, !.ndraws = @ + 1]]

\* A new list object holding `items`; its reference is its heap index.
new_list(w, items) ==
  [ref |-> Len(w.lists) + 1, w |-> [w EXCEPT !.lists = Append(@, items)]]

\* ------------------------------------------------------------------- Graph
\* Graph(N, X, y): a new Graph object whose fields X and y are references.
Graph(w, N, X, y) ==
  [ref |-> Len(w.graphs) + 1,
   w   |-> [w EXCEPT !.graphs = Append(@, [N |-> N, X |-> X, y |-> y])]]

\* ---------------------------------------------------------------- make_pts
\* for i in range(N): two draws, x_1 then x_2, and X.append((x_1, x_2)).
RECURSIVE make_pts_loop(_, _, _, _)
make_pts_loop(i, N, X, w) ==
  IF i >= N
  THEN [X |-> X, w |-> w, iters |-> i]
  ELSE LET x_1 == random(w)
           x_2 == random(x_1.w)
       IN  make_pts_loop(i + 1, N, Append(X, <<x_1.val, x_2.val>>), x_2.w)

\* A make_pts whose result list is one list shared by every call (a mutable
\* default argument): points are appended to the first list ever made.
make_pts_shared(N, w) ==
  LET r == make_pts_loop(0, N, <<>>, w)
  IN  IF Len(w.lists) = 0
      THEN [ref |-> 1, w |-> [r.w EXCEPT !.lists = <<r.X>>], iters |-> r.iters]
      ELSE [ref |-> 1, w |-> [r.w EXCEPT !.lists[1] = @ \o r.X], iters |-> r.iters]

\* A make_pts that draws x_2 before x_1.
make_pts_swapped(N, w) ==
  LET r == make_pts_loop(0, N, <<>>, w)
      a == new_list(r.w, [k \in 1..Len(r.X) |-> <<r.X[k][2], r.X[k][1]>>])
  IN  [ref |-> a.ref, w |-> a.w, iters |-> r.iters]

\* X = []; the loop; return X.  The list is a fresh object.
make_pts(N, w) ==
  LET r == make_pts_loop(0, N, <<>>, w)
      a == new_list(r.w, r.X)
  IN  [ref |-> a.ref, w |-> a.w, iters |-> r.iters]

\* ------------------------------------------------------------ label rules
\* y1 = 1 if x_1 < 0.5 else 0, with <= in place of <.
simple_y1_le(x_1, x_2) == IF x_1 <= Half THEN 1 ELSE 0

simple_y1(x_1, x_2) == IF x_1 < Half THEN 1 ELSE 0

diag_y1(x_1, x_2) == IF x_1 + x_2 < Half THEN 1 ELSE 0

split_y1(x_1, x_2) == IF x_1 < SplitLo \/ x_1 > SplitHi THEN 1 ELSE 0

xor_y1(x_1, x_2) ==
  IF (x_1 < Half /\ x_2 > Half) \/ (x_1 > Half /\ x_2 < Half) THEN 1 ELSE 0

circle_y1(x_1, x_2) ==
  LET x1 == x_1 - Half
      x2 == x_2 - Half
  IN  IF x1 * x1 + x2 * x2 > CircleR2 THEN 1 ELSE 0

\* What a call hands back to its caller, beside the world it leaves.
Returned(w, ref, sampler_calls, sample_iters, label_iters) ==
  [w |-> w, raised |-> "none", ret |-> ref, sampler_calls |-> sampler_calls,
   sample_iters |-> sample_iters, label_iters |-> label_iters, divisors |-> {}]

\* Each geometric generator: X = make_pts(N); y = []; for x_1, x_2 in X:
\* y.append(y1), one iteration per element of X; return Graph(N, X, y).
simple(N, w) ==
  LET p == make_pts(N, w)
      X == p.w.lists[p.ref]
      y == new_list(p.w, [k \in 1..Len(X) |-> simple_y1(X[k][1], X[k][2])])
      g == Graph(y.w, N, p.ref, y.ref)
  IN  Returned(g.w, g.ref, 1, p.iters, Len(X))

diag(N, w) ==
  LET p == make_pts(N, w)
      X == p.w.lists[p.ref]
      y == new_list(p.w, [k \in 1..Len(X) |-> diag_y1(X[k][1], X[k][2])])
      g == Graph(y.w, N, p.ref, y.ref)
  IN  Returned(g.w, g.ref, 1, p.iters, Len(X))

split(N, w) ==
  LET p == make_pts(N, w)
      X == p.w.lists[p.ref]
      y == new_list(p.w, [k \in 1..Len(X) |-> split_y1(X[k][1], X[k][2])])
      g == Graph(y.w, N, p.ref, y.ref)
  IN  Returned(g.w, g.ref, 1, p.iters, Len(X))

xor(N, w) ==
  LET p == make_pts(N, w)
      X == p.w.lists[p.ref]
      y == new_list(p.w, [k \in 1..Len(X) |-> xor_y1(X[k][1], X[k][2])])
      g == Graph(y.w, N, p.ref, y.ref)
  IN  Returned(g.w, g.ref, 1, p.iters, Len(X))

circle(N, w) ==
  LET p == make_pts(N, w)
      X == p.w.lists[p.ref]
      y == new_list(p.w, [k \in 1..Len(X) |-> circle_y1(X[k][1], X[k][2])])
      g == Graph(y.w, N, p.ref, y.ref)
  IN  Returned(g.w, g.ref, 1, p.iters, Len(X))

\* ------------------------------------------------------------------ spiral
\* range(a, b) as the sequence of its values; empty when b <= a.
py_range(a, b) == IF b <= a THEN <<>> ELSE [k \in 1..(b - a) |-> a + k - 1]

\* [v] * n: empty when n <= 0.
py_repeat(v, n) == IF n <= 0 THEN <<>> ELSE [k \in 1..n |-> v]

\* float(i) / d as the exact quotient i/d; raises ZeroDivisionError for d = 0.
true_div(i, d) ==
  IF d = 0 THEN [ok |-> FALSE, num |-> 0, den |-> 0]
           ELSE [ok |-> TRUE, num |-> i, den |-> d]

\* c * q for a float literal c with an integer value.
times(c, q) == [q EXCEPT !.num = c * @]

\* def x(t): t * math.cos(t) / 20.0, kept as a term in t.
spiral_x(t) == [curve |-> "x", t |-> <<t.num, t.den>>, plus |-> 0]

\* def y(t): t * math.sin(t) / 20.0, kept as a term in t.
spiral_y(t) == [curve |-> "y", t |-> <<t.num, t.den>>, plus |-> 0]

\* term + 0.5
plus_half(c) == [c EXCEPT !.plus = @ + Half]

\* range(0, N // 2): the arms start at the origin.
spiral_index_from_zero(N) == py_range(0, N \div 2)

\* range(0, 5 + N // 2): the offset moved into the upper end only.
spiral_index_wide(N) == py_range(0, ArmStart + N \div 2)

\* range(5 + 0, 5 + N // 2)
spiral_index(N) == py_range(ArmStart + 0, ArmStart + N \div 2)

\* The divisions a comprehension over spiral_index(N) evaluates: one divisor
\* N // 2 per element and coordinate, none when the range is empty.
spiral_divisors(N) == IF Len(spiral_index(N)) > 0 THEN {N \div 2} ELSE {}

\* [(x(10.0 * (float(i) / (N // 2))) + 0.5, y(10.0 * (...)) + 0.5) for i in ...]
spiral_arm_a(N) ==
  LET idx  == spiral_index(N)
      t(i) == times(TenTimes, true_div(i, N \div 2))
  IN  [k \in 1..Len(idx) |->
         <<plus_half(spiral_x(t(idx[k]))), plus_half(spiral_y(t(idx[k])))>>]

\* [(y(-10.0 * (float(i) / (N // 2))) + 0.5, x(-10.0 * (...)) + 0.5) for i in ...]
spiral_arm_b(N) ==
  LET idx  == spiral_index(N)
      t(i) == times(-TenTimes, true_div(i, N \div 2))
  IN  [k \in 1..Len(idx) |->
         <<plus_half(spiral_y(t(idx[k]))), plus_half(spiral_x(t(idx[k])))>>]

\* [1] * (N // 2) + [0] * (N // 2): the arms' labels exchanged.
spiral_y2_flipped(N) == py_repeat(1, N \div 2) \o py_repeat(0, N \div 2)

\* y2 = [0] * (N // 2) + [1] * (N // 2)
spiral_y2(N) == py_repeat(0, N \div 2) \o py_repeat(1, N \div 2)

\* A spiral that takes its points from make_pts and keeps its own labels.
spiral_sampled(N, w) ==
  LET p == make_pts(N, w)
      y == new_list(p.w, spiral_y2(N))
      g == Graph(y.w, N, p.ref, y.ref)
  IN  Returned(g.w, g.ref, 1, p.iters, 0)

\* The two comprehensions, their concatenation, y2, and Graph(N, X, y2).  A
\* division by zero in a comprehension ends the call with nothing built.
spiral(N, w) ==
  LET idx == spiral_index(N)
      bad == \E k \in 1..Len(idx) : ~true_div(idx[k], N \div 2).ok
      X   == new_list(w, spiral_arm_a(N) \o spiral_arm_b(N))
      y2  == new_list(X.w, spiral_y2(N))
      g   == Graph(y2.w, N, X.ref, y2.ref)
  IN  IF bad
      THEN [w |-> w, raised |-> "ZeroDivisionError", ret |-> 0,
            sampler_calls |-> 0, sample_iters |-> 0, label_iters |-> 0,
            divisors |-> spiral_divisors(N)]
      ELSE [Returned(g.w, g.ref, 0, 0, 0) EXCEPT !.divisors = spiral_divisors(N)]

\* ---------------------------------------------------------------- registry
GeneratorNames == {"simple", "diag", "split", "xor", "circle", "spiral"}

\* A registry whose 'Spiral' entry names the wrong generator.
datasets_dict_wrong == [name \in {"Simple", "Diag", "Split", "Xor", "Circle", "Spiral"} |->
    CASE name = "Simple" -> "simple" [] name = "Diag" -> "diag"
      [] name = "Split" -> "split" [] name = "Xor" -> "xor"
      [] name = "Circle" -> "circle" [] name = "Spiral" -> "simple"]

\* datasets = {'Simple': simple, 'Diag': diag, 'Split': split, 'Xor': xor,
\*             'Circle': circle, 'Spiral': spiral}
datasets_dict ==
  ("Simple" :> "simple") @@ ("Diag" :> "diag") @@ ("Split" :> "split") @@
  ("Xor" :> "xor") @@ ("Circle" :> "circle") @@ ("Spiral" :> "spiral")

\* datasets[name]: the generator, or KeyError for a key the dict lacks.
getitem(d, name) ==
  IF name \in DOMAIN d
  THEN [raised |-> "none", found |-> d[name]]
  ELSE [raised |-> "KeyError", found |-> ""]

\* Names a caller looks up: the six keys, a key in another letter case and a
\* name of no generator.
LookupNames == DOMAIN datasets_dict \cup {"simple", "Triangle"}

\* ------------------------------------------------------------- the machine
Init ==
  /\ datasets = datasets_dict
  /\ lists = <<>>
  /\ graphs = <<>>
  /\ rng \in 1..Period
  /\ ndraws = 0
  /\ calls = <<>>

\* A generator call `op`(N) with outcome r, entered in the log of calls, which
\* holds at most `limit` entries.
Invoke(op, N, r, limit) ==
  /\ Len(calls) < limit
  /\ lists' = r.w.lists
  /\ graphs' = r.w.graphs
  /\ rng' = r.w.rng
  /\ ndraws' = r.w.ndraws
  /\ calls' = Append(calls,
       [op |-> op, N |-> N, name |-> "", raised |-> r.raised, ret |-> r.ret,
        found |-> "", rng0 |-> rng, rng1 |-> r.w.rng,
        nd0 |-> ndraws, nd1 |-> r.w.ndraws,
        sampler_calls |-> r.sampler_calls, sample_iters |-> r.sample_iters,
        label_iters |-> r.label_iters, divisors |-> r.divisors])
  /\ UNCHANGED datasets

CallSimple == \E N \in Ns : Invoke("simple", N, simple(N, World), MaxCalls)

CallDiag == \E N \in Ns : Invoke("diag", N, diag(N, World), MaxCalls)

CallSplit == \E N \in Ns : Invoke("split", N, split(N, World), MaxCalls)

CallXor == \E N \in Ns : Invoke("xor", N, xor(N, World), MaxCalls)

CallCircle == \E N \in Ns : Invoke("circle", N, circle(N, World), MaxCalls)

CallSpiral == \E N \in SpiralNs : Invoke("spiral", N, spiral(N, World), MaxCalls)

\* datasets[name] by a caller.
Lookup ==
  \E name \in LookupNames :
    LET r == getitem(datasets, name)
    IN  /\ Len(calls) < MaxCalls
        /\ calls' = Append(calls,
             [op |-> "lookup", N |-> 0, name |-> name, raised |-> r.raised,
              ret |-> 0, found |-> r.found, rng0 |-> rng, rng1 |-> rng,
              nd0 |-> ndraws, nd1 |-> ndraws,
              sampler_calls |-> 0, sample_iters |-> 0, label_iters |-> 0,
              divisors |-> {}])
        /\ UNCHANGED <<datasets, lists, graphs, rng, ndraws>>

Next ==
  \/ CallSimple
  \/ CallDiag
  \/ CallSplit
  \/ CallXor
  \/ CallCircle
  \/ CallSpiral
  \/ Lookup

Spec == Init /\ [][Next]_vars

\* A caller that repeats spiral calls with sampling calls of the geometric
\* generators in between; one call longer than the runs of Spec.
RepeatSpiral ==
  \E N \in (0..MaxN) \cup {10} : Invoke("spiral", N, spiral(N, World), MaxCalls + 1)

RepeatSimple == Invoke("simple", MaxN, simple(MaxN, World), MaxCalls + 1)

RepeatDiag == Invoke("diag", MaxN, diag(MaxN, World), MaxCalls + 1)

RepeatSplit == Invoke("split", MaxN, split(MaxN, World), MaxCalls + 1)

RepeatXor == Invoke("xor", MaxN, xor(MaxN, World), MaxCalls + 1)

RepeatCircle == Invoke("circle", MaxN, circle(MaxN, World), MaxCalls + 1)

NextRepeat ==
  \/ RepeatSpiral
  \/ RepeatSimple
  \/ RepeatDiag
  \/ RepeatSplit
  \/ RepeatXor
  \/ RepeatCircle

SpecRepeat == Init /\ [][NextRepeat]_vars

\* ------------------------------------------------- reading the log of calls
GeometricOps == {"simple", "diag", "split", "xor", "circle"}

Logged == {calls[k] : k \in 1..Len(calls)}

\* The Graph a logged call returned, and the contents of its two lists.
GraphOf(c) == graphs[c.ret]

XOf(c) == lists[graphs[c.ret].X]

YOf(c) == lists[graphs[c.ret].y]

IsReturned(c) == c.raised = "none" /\ c.ret \in 1..Len(graphs)

\* The j-th draw (j = 0, 1, ...) of a source that starts in state p.
DrawAt(p, j) == RandomTable[((p - 1 + j) % Period) + 1]

\* The strict predicate of each geometric generator.
LabelRule(op, x1, x2) ==
  CASE op = "simple" -> x1 < Half
    [] op = "diag"   -> x1 + x2 < Half
    [] op = "split"  -> x1 < SplitLo \/ x1 > SplitHi
    [] op = "xor"    -> (x1 < Half /\ x2 > Half) \/ (x1 > Half /\ x2 < Half)
    [] op = "circle" -> (x1 - Half) * (x1 - Half) + (x2 - Half) * (x2 - Half) > CircleR2

\* A point on the boundary of a generator's region.
OnBoundary(op, x1, x2) ==
  CASE op = "simple" -> x1 = Half
    [] op = "diag"   -> x1 + x2 = Half
    [] op = "split"  -> x1 = SplitLo \/ x1 = SplitHi
    [] op = "xor"    -> x1 = Half \/ x2 = Half
    [] op = "circle" -> FALSE

\* ------------------------------------------------------------------ claims
\* C1: for each geometric generator, N >= 0 and i < N, the label y[i] is 1
\* exactly when the generator's strict predicate holds of X[i], and 0
\* otherwise; a point exactly on a boundary is labeled 0.
C1_LabelIsStrictPredicate ==
  \A c \in Logged :
    (c.op \in GeometricOps /\ c.N >= 0) =>
      /\ IsReturned(c)
      /\ \A i \in 1..c.N :
           /\ i \in DOMAIN XOf(c) /\ i \in DOMAIN YOf(c)
           /\ YOf(c)[i] = (IF LabelRule(c.op, XOf(c)[i][1], XOf(c)[i][2]) THEN 1 ELSE 0)
           /\ OnBoundary(c.op, XOf(c)[i][1], XOf(c)[i][2]) => YOf(c)[i] = 0

\* A simple call labeled a point with x1 = 0.5 with 0 and another point 1, and
\* a call of another generator labeled a point on its own boundary with 0.
C1_Witness ==
  /\ \E c \in Logged :
       /\ c.op = "simple" /\ c.N = 2 /\ IsReturned(c)
       /\ \E i, j \in 1..2 :
            XOf(c)[i][1] = Half /\ YOf(c)[i] = 0 /\ YOf(c)[j] = 1
  /\ \E c \in Logged :
       /\ c.op \in {"diag", "split", "xor"} /\ c.N = 2 /\ IsReturned(c)
       /\ \E i, j \in 1..2 :
            /\ OnBoundary(c.op, XOf(c)[i][1], XOf(c)[i][2])
            /\ YOf(c)[i] = 0 /\ YOf(c)[j] = 1

\* C2: for each of the six generators and every N >= 0 the returned Dataset
\* has len(X) = len(y) = N, the declared sample count.
C2_LengthsEqualDeclaredN ==
  \A c \in Logged :
    (c.op # "lookup" /\ c.N >= 0) =>
      /\ IsReturned(c)
      /\ GraphOf(c).N = c.N
      /\ Len(XOf(c)) = c.N
      /\ Len(YOf(c)) = c.N

C4_InvalidArgumentRaised ==
  \A c \in Logged :
    (c.op # "lookup" /\ (c.N < 0 \/ (c.op = "spiral" /\ c.N % 2 = 1))) =>
      (c.raised = "InvalidArgument" /\ c.ret = 0)

\* C5: the registry has exactly the keys Simple, Diag, Split, Xor, Circle,
\* Spiral, each mapped to the generator of that name; a lookup by any other
\* string, "simple" included, fails with a key error and returns no generator.
C5_RegistryLookup ==
  /\ DOMAIN datasets = {"Simple", "Diag", "Split", "Xor", "Circle", "Spiral"}
  /\ datasets["Simple"] = "simple" /\ datasets["Diag"] = "diag"
  /\ datasets["Split"] = "split" /\ datasets["Xor"] = "xor"
  /\ datasets["Circle"] = "circle" /\ datasets["Spiral"] = "spiral"
  /\ \A c \in Logged :
       c.op = "lookup" =>
         /\ c.name = "Simple" => (c.raised = "none" /\ c.found = "simple")
         /\ c.name = "Diag"   => (c.raised = "none" /\ c.found = "diag")
         /\ c.name = "Split"  => (c.raised = "none" /\ c.found = "split")
         /\ c.name = "Xor"    => (c.raised = "none" /\ c.found = "xor")
         /\ c.name = "Circle" => (c.raised = "none" /\ c.found = "circle")
         /\ c.name = "Spiral" => (c.raised = "none" /\ c.found = "spiral")
         /\ c.name \notin {"Simple", "Diag", "Split", "Xor", "Circle", "Spiral"} =>
              (c.raised = "KeyError" /\ c.found = "")

\* A lookup of "simple" failed and a lookup of "Spiral" gave spiral.
C5_Witness ==
  /\ \E c \in Logged : c.op = "lookup" /\ c.name = "simple" /\ c.raised = "KeyError"
  /\ \E c \in Logged : c.op = "lookup" /\ c.name = "Spiral" /\ c.found = "spiral"

\* C6: spiral consumes no draw and leaves the random source as it was, and two
\* calls spiral(N) with the same N return identical X, y and N whatever the
\* state of the random source and the calls in between.
C6_SpiralDeterministic ==
  /\ \A c \in Logged :
       c.op = "spiral" =>
         c.nd1 = c.nd0 /\ c.rng1 = c.rng0 /\ c.sampler_calls = 0
  /\ \A c, d \in Logged :
       (c.op = "spiral" /\ d.op = "spiral" /\ c.N = d.N) =>
         /\ IsReturned(c) /\ IsReturned(d)
         /\ GraphOf(c).N = GraphOf(d).N
         /\ XOf(c) = XOf(d)
         /\ YOf(c) = YOf(d)

\* Two calls spiral(10) were made in different states of the random source.
C6_Witness ==
  \E j, k \in 1..Len(calls) :
    /\ j < k
    /\ calls[j].op = "spiral" /\ calls[k].op = "spiral"
    /\ calls[j].N = 10 /\ calls[k].N = 10
    /\ calls[j].rng0 # calls[k].rng0
    /\ calls[j].ret # calls[k].ret
    /\ Len(XOf(calls[k])) = 10

\* C7: a geometric generator called with N >= 0 calls the sampler once and
\* consumes exactly 2N draws, x1 then x2 for each point: X[i] = (d[2i],
\* d[2i+1]); labeling draws nothing, and the call ends after N sampling and N
\* labeling iterations.
C7_TwoDrawsPerPointInOrder ==
  \A c \in Logged :
    (c.op \in GeometricOps /\ c.N >= 0) =>
      /\ IsReturned(c)
      /\ c.sampler_calls = 1
      /\ c.nd1 - c.nd0 = 2 * c.N
      /\ c.rng1 = ((c.rng0 - 1 + 2 * c.N) % Period) + 1
      /\ c.sample_iters = c.N
      /\ c.label_iters = c.N
      /\ Len(XOf(c)) = c.N
      /\ \A i \in 0..(c.N - 1) :
           XOf(c)[i + 1] = <<DrawAt(c.rng0, 2 * i), DrawAt(c.rng0, 2 * i + 1)>>

\* A geometric call drew four distinct-looking coordinates for two points.
C7_Witness ==
  \E c \in Logged :
    /\ c.op \in GeometricOps /\ c.N = 2 /\ IsReturned(c)
    /\ c.nd1 = c.nd0 + 4
    /\ XOf(c)[1][1] # XOf(c)[1][2]
    /\ XOf(c)[1] # XOf(c)[2]

\* The parameter t of a spiral coordinate equals the fraction n/d.
ParamIs(coord, n, d) == coord.t[2] # 0 /\ coord.t[1] * d = n * coord.t[2]

\* The parameter of coordinate a is less than that of coordinate b.
ParamLess(a, b) ==
  a.t[2] > 0 /\ b.t[2] > 0 /\ a.t[1] * b.t[2] < b.t[1] * a.t[2]

\* C8: for even N >= 2, half = N // 2 and k < half, Arm A's k-th point and Arm
\* B's k-th point use i = 5 + k and t = 10*i/half: A is (curveX(t) + 0.5,
\* curveY(t) + 0.5), B is (curveY(-t) + 0.5, curveX(-t) + 0.5); t increases
\* with k from 50/half to 10 + 40/half; spiral(10) starts at t = 10.
C8_SpiralParameters ==
  \A c \in Logged :
    (c.op = "spiral" /\ c.N >= 2 /\ c.N % 2 = 0) =>
      LET half == c.N \div 2
          X    == XOf(c)
      IN
      /\ IsReturned(c)
      /\ Len(X) = 2 * half
      /\ \A k \in 0..(half - 1) :
           LET a == X[k + 1]
               b == X[half + k + 1]
               n == 10 * (5 + k)
           IN  /\ a[1].curve = "x" /\ a[2].curve = "y"
               /\ b[1].curve = "y" /\ b[2].curve = "x"
               /\ a[1].plus = Half /\ a[2].plus = Half
               /\ b[1].plus = Half /\ b[2].plus = Half
               /\ ParamIs(a[1], n, half) /\ ParamIs(a[2], n, half)
               /\ ParamIs(b[1], -n, half) /\ ParamIs(b[2], -n, half)
      /\ \A k \in 1..(half - 1) : ParamLess(X[k][1], X[k + 1][1])
      /\ ParamIs(X[1][1], 50, half)
      /\ ~ParamIs(X[1][1], 0, 1)
      /\ ParamIs(X[half][1], 10 * half + 40, half)
      /\ c.N = 10 => ParamIs(X[1][1], 10, 1)

\* spiral(10) returned, its first point at t = 10 and its last Arm A point at
\* t = 18.
C8_Witness ==
  \E c \in Logged :
    /\ c.op = "spiral" /\ c.N = 10 /\ IsReturned(c)
    /\ ParamIs(XOf(c)[1][1], 10, 1)
    /\ ParamIs(XOf(c)[5][1], 18, 1)
    /\ ParamIs(XOf(c)[6][1], -10, 1)

\* C9: a call changes no state but the random source: the registry keeps its
\* six entries and every Dataset returned earlier keeps its N, X and y; the
\* lists of a new Dataset are fresh, shared with no other Dataset.
C9_CallsLeaveEarlierStateAlone ==
  [][ /\ datasets' = datasets
      /\ \A g \in 1..Len(graphs) :
           /\ g \in 1..Len(graphs')
           /\ graphs'[g].N = graphs[g].N
           /\ lists'[graphs'[g].X] = lists[graphs[g].X]
           /\ lists'[graphs'[g].y] = lists[graphs[g].y]
      /\ \A g \in (1..Len(graphs')) \ (1..Len(graphs)) :
           /\ graphs'[g].X # graphs'[g].y
           /\ \A e \in 1..Len(graphs) :
                {graphs'[g].X, graphs'[g].y} \cap {graphs[e].X, graphs[e].y} = {}
    ]_vars

\* Two sampling calls returned, the later one after the earlier one's Dataset
\* existed.
C9_Witness ==
  /\ Len(calls) = 2
  /\ calls[1].op \in GeometricOps /\ calls[1].N = 2
  /\ calls[2].op \in GeometricOps /\ calls[2].N = 2
  /\ Len(graphs) = 2
  /\ Len(XOf(calls[1])) = 2

====
